---------------------------- MODULE Spec2Model ----------------------------
(***************************************************************************)
(* Unity Weather Monitor (src/unity_weather_monitor.py) as a state machine *)
(* of two threads: the background thread running update_weather_loop and   *)
(* the GTK main loop ("ui") running the menu handlers and the callbacks    *)
(* queued with GLib.idle_add.  Each action is one step between two points  *)
(* at which the other thread can be scheduled: it holds at most one access *)
(* to a field both threads use, followed or preceded by thread-local work. *)
(*                                                                         *)
(* Values fetched from the network are abstract: the k-th weather reply    *)
(* carries temperature k, condition k and days <<k,1>>, <<k,2>>, ...; the  *)
(* k-th geolocation reply carries latitude k, longitude k and place k.     *)
(* list.append is one step (load of self.forecast and append together).    *)
(***************************************************************************)
EXTENDS Integers, Sequences, FiniteSets, TLC

\* ------------------------------------------------------------- bounds
\* Days carried by a well-formed weather reply in the concurrent model
\* (the program asks for 15, see ForecastDays).
MaxDays == 2
\* Weather replies (of any kind) delivered in one run.
MaxFetch == 2
\* Geolocation replies delivered in one run.
MaxLoc == 2
\* Menu actions of the user (unit, interval, refresh) in one run.
MaxUser == 1
\* Time scale of the wait: the smallest interval choice in minutes (the
\* program offers 15, 30, 60) and the 1-second sleeps per minute (60).
MinInterval == 1
TicksPerMinute == 1

\* ------------------------------------------------- program constants
\* forecast_days of the request and the number of placeholder rows.
ForecastDays == 15
\* insert_position: after location, current weather and first separator.
InsertPosition == 3
\* weekday() of Saturday; Saturday and Sunday are weekday() >= 5.
Saturday == 5
\* The value None of current_temp / current_condition, and source 0 of the
\* hardcoded default location.
None == 0

Threads == {"bg", "ui"}

\* Dates of the first forecast day in the concurrent model: a Thursday and
\* a Saturday (ordinal 0 is a Monday).
FirstDates == {3, 5}

VARIABLES
    running,            \* self.running
    latitude,           \* self.latitude  (source: 0 default, k = k-th reply)
    longitude,          \* self.longitude
    location_name,      \* self.location_name
    use_imperial,       \* self.use_imperial
    current_temp,       \* self.current_temp (None or reply id)
    current_condition,  \* self.current_condition
    forecast,           \* self.forecast
    update_interval,    \* self.update_interval
    idleq,              \* callbacks queued with GLib.idle_add, FIFO
    pc,                 \* position of each thread
    data,               \* per thread: the reply being processed
    li,                 \* per thread: loop index of update_weather_data
    ret,                \* per thread: return value of the call just ended
    wrote,              \* per thread: the current call has changed stored data
    waitTotal,          \* range(self.update_interval * 60) of the running wait
    waitDone,           \* iterations of the wait already slept
    rend,               \* locals of update_weather_ui
    indicator_label,    \* indicator label
    location_item,      \* label of self.location_item
    current_item,       \* label of self.current_item
    menu,               \* self.menu.get_children()
    widgetWriters,      \* threads that have changed a widget
    nfetch, nloc, nuser,\* replies / user actions so far
    today,              \* date of the first forecast day
    badReply,           \* a malformed weather reply has been delivered
    bgLocAttempts,      \* calls of get_location_from_ip by the background thread
    bgLocSinceFetch     \* ... one of them since its last weather request

vars == <<running, latitude, longitude, location_name, use_imperial,
          current_temp, current_condition, forecast, update_interval, idleq,
          pc, data, li, ret, wrote, waitTotal, waitDone, rend,
          indicator_label, location_item, current_item, menu, widgetWriters,
          nfetch, nloc, nuser, today, badReply, bgLocAttempts, bgLocSinceFetch>>

stored == <<current_temp, current_condition, forecast>>
location == <<latitude, longitude, location_name>>
widgets == <<indicator_label, location_item, current_item, menu>>
prefs == <<use_imperial, update_interval>>
counters == <<nfetch, nloc, nuser, today, badReply>>
locghost == <<bgLocAttempts, bgLocSinceFetch>>
waitvars == <<waitTotal, waitDone>>

\* ------------------------------------------------------------ menu rows
Item(kind, src, idx, date, unit) ==
    [kind |-> kind, src |-> src, idx |-> idx, date |-> date, unit |-> unit]

Plain(kind) == Item(kind, 0, 0, 0, "")

\* create_monospace_menu_item("") of the weekend separators
BlankItem == Plain("blank")

DayAbbrev == <<"Mon", "Tue", "Wed", "Thu", "Fri", "Sat", "Sun">>

\* datetime.weekday(): 0 = Monday ... 6 = Sunday; dates are day ordinals
\* with ordinal 0 a Monday.
Weekday(date) == date % 7

IsWeekend(date) == Weekday(date) >= Saturday

\* label.get_text() of a row, up to its first word
Text(item) ==
    CASE item.kind = "forecast"    -> DayAbbrev[Weekday(item.date) + 1]
      [] item.kind = "placeholder" -> "Day"
      [] item.kind = "blank"       -> ""
      [] item.kind = "location"    -> "Location:"
      [] item.kind = "current"     -> "Current"
      [] item.kind = "prefs"       -> "Preferences"
      [] item.kind = "refresh"     -> "Refresh"
      [] item.kind = "quit"        -> "Quit"
      [] OTHER                     -> ""

IsSeparatorMenuItem(item) == item.kind = "gtksep"

\* the rows the scan of update_weather_ui collects in items_to_remove
Removable(item) ==
    /\ item.kind \notin {"location", "current"}
    /\ ~IsSeparatorMenuItem(item)
    /\ Text(item) # ""
    /\ Text(item) \in {"Mon", "Tue", "Wed", "Thu", "Fri", "Sat", "Sun", "Day"}

RECURSIVE RemoveItems(_)
RemoveItems(m) ==
    IF m = <<>> THEN <<>>
    ELSE IF Removable(Head(m)) THEN RemoveItems(Tail(m))
         ELSE <<Head(m)>> \o RemoveItems(Tail(m))

\* the menu built by __init__
InitialMenu ==
    <<Plain("location"), Plain("current"), Plain("gtksep")>>
    \o [i \in 1..ForecastDays |-> Item("placeholder", 0, i, 0, "")]
    \o <<Plain("gtksep"), Plain("prefs"), Plain("gtksep"),
         Plain("refresh"), Plain("quit")>>

\* ---------------------------------------------------- weekend grouping
\* only the start of a weekend puts a separator before a day's row
WeekendStartOnly(is_weekend, last_was_weekend) ==
    IF is_weekend /\ ~last_was_weekend THEN <<BlankItem>> ELSE <<>>

\* "Handle weekend transitions": the separator put before a day's row
WeekendTransition(is_weekend, last_was_weekend) ==
    IF is_weekend /\ ~last_was_weekend THEN <<BlankItem>>
    ELSE IF ~is_weekend /\ last_was_weekend THEN <<BlankItem>>
    ELSE <<>>

\* the row of one forecast day
ForecastRow(day, imperial) ==
    Item("forecast", day.src, day.idx, day.date, IF imperial THEN "F" ELSE "C")

\* "If the last day was a weekend, add closing separator"
ClosingSeparator(last_was_weekend) ==
    IF last_was_weekend THEN <<BlankItem>> ELSE <<>>

\* menu.insert of the new rows from insert_position on
InsertRows(m, rows) ==
    IF Len(m) >= InsertPosition
    THEN SubSeq(m, 1, InsertPosition) \o rows \o SubSeq(m, InsertPosition + 1, Len(m))
    ELSE m \o rows


\* ------------------------------------------------------- network replies
Reply(kind, id, temp, code, ntime, nvals) ==
    [kind |-> kind, id |-> id, temp |-> temp, code |-> code,
     ntime |-> ntime, nvals |-> nvals]

NoData == Reply("none", 0, FALSE, FALSE, 0, 0)

\* ipinfo.io: transport error, status # 200, no "loc", "loc" without exactly
\* one comma, "loc" whose first / second part is no number, a full reply,
\* a reply without city, region and country
LocKinds == {"neterr", "http", "noloc", "parts", "badlat", "badlon", "ok", "noname"}

\* open-meteo: the JSON bodies of a status-200 reply.  temp / code: the
\* fields of "current" are present; ntime: length of daily.time (-1: no
\* "daily"); nvals: length of the shortest other daily list.
WxBodies ==
    { [temp |-> TRUE,  code |-> TRUE,  ntime |-> MaxDays, nvals |-> MaxDays],
      [temp |-> FALSE, code |-> TRUE,  ntime |-> MaxDays, nvals |-> MaxDays],
      [temp |-> TRUE,  code |-> FALSE, ntime |-> MaxDays, nvals |-> MaxDays],
      [temp |-> TRUE,  code |-> TRUE,  ntime |-> -1,      nvals |-> MaxDays],
      [temp |-> TRUE,  code |-> TRUE,  ntime |-> MaxDays, nvals |-> MaxDays - 1] }

WellFormed(b) == b.temp /\ b.code /\ b.ntime = MaxDays /\ b.nvals = MaxDays

\* transport error, status # 200, or an empty JSON object
WxFailKinds == {"neterr", "http", "empty"}

Day(src, idx, date) == [src |-> src, idx |-> idx, date |-> date]

Place(text, src) == [text |-> text, src |-> src]

\* the interval radio items: 15, 30, 60 minutes in the program
IntervalChoices == {MinInterval, 2 * MinInterval, 4 * MinInterval}

NoLabel == [icon |-> None, desc |-> None, temp |-> None, unit |-> ""]

RendIdle ==
    [icon |-> None, temp |-> None, live |-> FALSE, snap |-> <<>>,
     i |-> 0, new_items |-> <<>>, last |-> FALSE]

Unit == IF use_imperial THEN "F" ELSE "C"

\* ----------------------------------------------------------------- Init
Init ==
    /\ running = TRUE
    /\ latitude = None
    /\ longitude = None
    /\ location_name = Place("Default Location", None)
    /\ use_imperial = TRUE
    /\ current_temp = None
    /\ current_condition = None
    /\ forecast = <<>>
    /\ update_interval = MinInterval
    /\ idleq = <<>>
    /\ pc = [t \in Threads |-> IF t = "bg" THEN "start" ELSE "idle"]
    /\ data = [t \in Threads |-> NoData]
    /\ li = [t \in Threads |-> 0]
    /\ ret = [t \in Threads |-> FALSE]
    /\ wrote = [t \in Threads |-> FALSE]
    /\ waitTotal = 0
    /\ waitDone = 0
    /\ rend = RendIdle
    /\ indicator_label = NoLabel
    /\ location_item = Place("Detecting...", None)
    /\ current_item = NoLabel
    /\ menu = InitialMenu
    /\ widgetWriters = {}
    /\ nfetch = 0
    /\ nloc = 0
    /\ nuser = 0
    /\ today \in FirstDates
    /\ badReply = FALSE
    /\ bgLocAttempts = 0
    /\ bgLocSinceFetch = FALSE

\* a thread leaves the call it was in
Goto(t, label) == pc' = [pc EXCEPT ![t] = label]

Return(t, label, value) ==
    /\ pc' = [pc EXCEPT ![t] = label]
    /\ ret' = [ret EXCEPT ![t] = value]

\* ------------------------------------------------- get_location_from_ip
\* the call is entered: the request of line 266 is in flight
EnterLocation(t) ==
    /\ Goto(t, "loc_call")
    /\ wrote' = [wrote EXCEPT ![t] = FALSE]
    /\ bgLocAttempts' = IF t = "bg" THEN bgLocAttempts + 1 ELSE bgLocAttempts
    /\ bgLocSinceFetch' = IF t = "bg" THEN TRUE ELSE bgLocSinceFetch

\* the loop is entered without the call
StartupSkipsLocation ==
    /\ Goto("bg", "loop_test")
    /\ UNCHANGED <<wrote, locghost>>

\* "First try to get location from IP", before the loop
StartupLocation == EnterLocation("bg")

\* the thread starts
BgStart ==
    /\ pc["bg"] = "start"
    /\ StartupLocation
    /\ UNCHANGED <<running, location, prefs, stored, idleq, data, li, ret,
                   waitvars, rend, widgets, widgetWriters, counters>>

\* requests.get returns or raises; status, "loc" and its split are checked
LocReply(t) ==
    /\ pc[t] = "loc_call"
    /\ nloc < MaxLoc
    /\ nloc' = nloc + 1
    /\ \E k \in LocKinds :
          IF k \in {"neterr", "http", "noloc", "parts"}
          THEN /\ Return(t, "loc_ret", FALSE)
               /\ UNCHANGED data
          ELSE /\ Goto(t, "loc_lat")
               /\ data' = [data EXCEPT ![t] = Reply(k, nloc + 1, FALSE, FALSE, 0, 0)]
               /\ UNCHANGED ret
    /\ UNCHANGED <<running, location, prefs, stored, idleq, li, wrote,
                   waitvars, rend, widgets, widgetWriters, nfetch, nuser,
                   today, badReply, locghost>>

\* self.latitude = float(lat_long[0])
LocLatitude(t) ==
    /\ pc[t] = "loc_lat"
    /\ IF data[t].kind = "badlat"
       THEN /\ Return(t, "loc_ret", FALSE)
            /\ UNCHANGED <<latitude, wrote>>
       ELSE /\ latitude' = data[t].id
            /\ wrote' = [wrote EXCEPT ![t] = TRUE]
            /\ Goto(t, "loc_lon")
            /\ UNCHANGED ret
    /\ UNCHANGED <<running, longitude, location_name, prefs, stored, idleq,
                   data, li, waitvars, rend, widgets, widgetWriters, counters,
                   locghost>>

\* self.longitude = float(lat_long[1])
LocLongitude(t) ==
    /\ pc[t] = "loc_lon"
    /\ IF data[t].kind = "badlon"
       THEN /\ Return(t, "loc_ret", FALSE)
            /\ UNCHANGED longitude
       ELSE /\ longitude' = data[t].id
            /\ Goto(t, "loc_name")
            /\ UNCHANGED ret
    /\ UNCHANGED <<running, latitude, location_name, prefs, stored, idleq,
                   data, li, wrote, waitvars, rend, widgets, widgetWriters,
                   counters, locghost>>

\* self.location_name = ", ".join(location_parts) or "Unknown Location"
LocName(t) ==
    /\ pc[t] = "loc_name"
    /\ location_name' = IF data[t].kind = "noname"
                        THEN Place("Unknown Location", None)
                        ELSE Place("place", data[t].id)
    /\ Return(t, "loc_ret", TRUE)
    /\ UNCHANGED <<running, latitude, longitude, prefs, stored, idleq, data,
                   li, wrote, waitvars, rend, widgets, widgetWriters, counters,
                   locghost>>

\* the caller goes on (it drops the result): the loop of the background
\* thread, update_weather_data in refresh_weather
LocReturn(t) ==
    /\ pc[t] = "loc_ret"
    /\ Goto(t, IF t = "bg" THEN "loop_test" ELSE "wx_call")
    /\ data' = [data EXCEPT ![t] = NoData]
    /\ ret' = [ret EXCEPT ![t] = FALSE]
    /\ wrote' = [wrote EXCEPT ![t] = FALSE]
    /\ UNCHANGED <<running, location, prefs, stored, idleq, li, waitvars,
                   rend, widgets, widgetWriters, counters, locghost>>

\* ------------------------------------------------------ get_weather_data
\* requests.get of line 315 returns or raises; "if not data: return False"
WxReply(t) ==
    /\ pc[t] = "wx_call"
    /\ nfetch < MaxFetch
    /\ nfetch' = nfetch + 1
    /\ wrote' = [wrote EXCEPT ![t] = FALSE]
    /\ bgLocSinceFetch' = IF t = "bg" THEN FALSE ELSE bgLocSinceFetch
    /\ \/ /\ \E k \in WxFailKinds : Return(t, "wx_ret", FALSE)
          /\ UNCHANGED <<data, badReply>>
       \/ \E b \in WxBodies :
             /\ data' = [data EXCEPT ![t] =
                           Reply("json", nfetch + 1, b.temp, b.code, b.ntime, b.nvals)]
             /\ badReply' = (badReply \/ ~WellFormed(b))
             /\ Goto(t, "wx_temp")
             /\ UNCHANGED ret
    /\ UNCHANGED <<running, location, prefs, stored, idleq, li, waitvars,
                   rend, widgets, widgetWriters, nloc, nuser, today,
                   bgLocAttempts>>

\* --------------------------------------------------- update_weather_data
\* self.current_temp = data["current"]["temperature_2m"]
WxTemp(t) ==
    /\ pc[t] = "wx_temp"
    /\ IF data[t].temp
       THEN /\ current_temp' = data[t].id
            /\ wrote' = [wrote EXCEPT ![t] = TRUE]
            /\ Goto(t, "wx_cond")
            /\ UNCHANGED ret
       ELSE /\ Return(t, "wx_ret", FALSE)
            /\ UNCHANGED <<current_temp, wrote>>
    /\ UNCHANGED <<running, location, prefs, current_condition, forecast,
                   idleq, data, li, waitvars, rend, widgets, widgetWriters,
                   counters, locghost>>

\* self.current_condition = data["current"]["weather_code"]
WxCond(t) ==
    /\ pc[t] = "wx_cond"
    /\ IF data[t].code
       THEN /\ current_condition' = data[t].id
            /\ Goto(t, "wx_idle")
            /\ UNCHANGED ret
       ELSE /\ Return(t, "wx_ret", FALSE)
            /\ UNCHANGED current_condition
    /\ UNCHANGED <<running, location, prefs, current_temp, forecast, idleq,
                   data, li, wrote, waitvars, rend, widgets, widgetWriters,
                   counters, locghost>>

\* the location item is written by thread t itself, without the queue
DirectLocationUpdate(t) ==
    /\ location_item' = location_name
    /\ widgetWriters' = widgetWriters \cup {t}
    /\ UNCHANGED idleq

\* GLib.idle_add(self.update_location_item)
QueueLocationUpdate(t) ==
    /\ idleq' = Append(idleq, "update_location_item")
    /\ UNCHANGED <<location_item, widgetWriters>>

WxIdleLocation(t) ==
    /\ pc[t] = "wx_idle"
    /\ QueueLocationUpdate(t)
    /\ Goto(t, "wx_clear")
    /\ UNCHANGED <<running, location, prefs, stored, data, li, ret, wrote,
                   waitvars, rend, indicator_label, current_item, menu,
                   counters, locghost>>

\* self.forecast = [] and the range of the loop, len(data["daily"]["time"]).
\* A render iterating over the list that was bound keeps that list, which
\* nothing changes any more.
WxClear(t) ==
    /\ pc[t] = "wx_clear"
    /\ forecast' = <<>>
    /\ wrote' = [wrote EXCEPT ![t] = wrote[t] \/ forecast # <<>>]
    /\ rend' = IF rend.live
               THEN [rend EXCEPT !.live = FALSE, !.snap = forecast]
               ELSE rend
    /\ IF data[t].ntime < 0
       THEN /\ Return(t, "wx_ret", FALSE)
            /\ UNCHANGED li
       ELSE IF data[t].ntime = 0
       THEN /\ Return(t, "wx_ret", TRUE)
            /\ UNCHANGED li
       ELSE /\ Goto(t, "wx_append")
            /\ li' = [li EXCEPT ![t] = 0]
            /\ UNCHANGED ret
    /\ UNCHANGED <<running, location, prefs, current_temp, current_condition,
                   idleq, data, waitvars, widgets, widgetWriters, counters,
                   locghost>>

\* one iteration: the four reads of data["daily"] and self.forecast.append
WxAppend(t) ==
    /\ pc[t] = "wx_append"
    /\ IF li[t] >= data[t].nvals
       THEN /\ Return(t, "wx_ret", FALSE)
            /\ UNCHANGED <<forecast, li, wrote>>
       ELSE /\ forecast' = Append(forecast, Day(data[t].id, li[t] + 1, today + li[t]))
            /\ wrote' = [wrote EXCEPT ![t] = TRUE]
            /\ IF li[t] + 1 = data[t].ntime
               THEN /\ Return(t, "wx_ret", TRUE)
                    /\ li' = [li EXCEPT ![t] = 0]
               ELSE /\ li' = [li EXCEPT ![t] = li[t] + 1]
                    /\ UNCHANGED <<pc, ret>>
    /\ UNCHANGED <<running, location, prefs, current_temp, current_condition,
                   idleq, data, waitvars, rend, widgets, widgetWriters,
                   counters, locghost>>

\* "if self.update_weather_data(): GLib.idle_add(self.update_weather_ui)"
\* of update_weather_loop and of refresh_weather
WxReturn(t) ==
    /\ pc[t] = "wx_ret"
    /\ idleq' = IF ret[t] THEN Append(idleq, "update_weather_ui") ELSE idleq
    /\ Goto(t, IF t = "bg" THEN "wait_start" ELSE "idle")
    /\ data' = [data EXCEPT ![t] = NoData]
    /\ ret' = [ret EXCEPT ![t] = FALSE]
    /\ wrote' = [wrote EXCEPT ![t] = FALSE]
    /\ UNCHANGED <<running, location, prefs, stored, li, waitvars, rend,
                   widgets, widgetWriters, counters, locghost>>

\* --------------------------------------------------- update_weather_loop
\* "while self.running:"
LoopTest ==
    /\ pc["bg"] = "loop_test"
    /\ Goto("bg", IF running THEN "wx_call" ELSE "done")
    /\ UNCHANGED <<running, location, prefs, stored, idleq, data, li, ret,
                   wrote, waitvars, rend, widgets, widgetWriters, counters,
                   locghost>>

\* "for _ in range(self.update_interval * 60)": the range is built once
WaitStart ==
    /\ pc["bg"] = "wait_start"
    /\ waitTotal' = update_interval * TicksPerMinute
    /\ waitDone' = 0
    /\ Goto("bg", "wait")
    /\ UNCHANGED <<running, location, prefs, stored, idleq, data, li, ret,
                   wrote, rend, widgets, widgetWriters, counters, locghost>>

\* the wait re-reads the interval at every iteration
WaitLimitReread == update_interval * TicksPerMinute

\* the number of iterations of the running wait
WaitLimit == waitTotal

\* one iteration of the wait: the range is exhausted, or running is tested
\* and the thread sleeps one second
WaitStep ==
    /\ pc["bg"] = "wait"
    /\ IF waitDone >= WaitLimit \/ ~running
       THEN /\ Goto("bg", "loop_test")
            /\ waitTotal' = 0
            /\ waitDone' = 0
       ELSE /\ waitDone' = waitDone + 1
            /\ UNCHANGED <<pc, waitTotal>>
    /\ UNCHANGED <<running, location, prefs, stored, idleq, data, li, ret,
                   wrote, rend, widgets, widgetWriters, counters, locghost>>

\* ------------------------------------------------- the GTK main loop
\* The main loop dispatches one event at a time; a handler runs to its end
\* on the main thread before the next event is taken.
UiReady == pc["ui"] = "idle"

\* the callback at the head of the idle queue: update_location_item
RunUpdateLocationItem ==
    /\ UiReady
    /\ idleq # <<>>
    /\ Head(idleq) = "update_location_item"
    /\ idleq' = Tail(idleq)
    /\ location_item' = location_name
    /\ widgetWriters' = widgetWriters \cup {"ui"}
    /\ UNCHANGED <<running, location, prefs, stored, pc, data, li, ret, wrote,
                   waitvars, rend, indicator_label, current_item, menu,
                   counters, locghost>>

\* the callback at the head of the idle queue: update_weather_ui
StartUpdateWeatherUi ==
    /\ UiReady
    /\ idleq # <<>>
    /\ Head(idleq) = "update_weather_ui"
    /\ idleq' = Tail(idleq)
    /\ Goto("ui", "r_check")
    /\ UNCHANGED <<running, location, prefs, stored, data, li, ret, wrote,
                   waitvars, rend, widgets, widgetWriters, counters, locghost>>

\* on_interval_toggled of the radio item that became active
OnIntervalToggled ==
    /\ UiReady
    /\ nuser < MaxUser
    /\ nuser' = nuser + 1
    /\ \E interval \in IntervalChoices \ {update_interval} :
          update_interval' = interval
    /\ UNCHANGED <<running, location, use_imperial, stored, idleq, pc, data,
                   li, ret, wrote, waitvars, rend, widgets, widgetWriters,
                   nfetch, nloc, today, badReply, locghost>>

\* on_unit_toggled of the radio item that became active
OnUnitToggled ==
    /\ UiReady
    /\ nuser < MaxUser
    /\ nuser' = nuser + 1
    /\ use_imperial' = ~use_imperial
    /\ idleq' = Append(idleq, "update_weather_ui")
    /\ UNCHANGED <<running, location, update_interval, stored, pc, data, li,
                   ret, wrote, waitvars, rend, widgets, widgetWriters, nfetch,
                   nloc, today, badReply, locghost>>

\* refresh_weather, the handler of "Refresh Now": it calls
\* get_location_from_ip and update_weather_data itself
RefreshWeather ==
    /\ UiReady
    /\ nuser < MaxUser
    /\ nuser' = nuser + 1
    /\ EnterLocation("ui")
    /\ UNCHANGED <<running, location, prefs, stored, idleq, data, li, ret,
                   waitvars, rend, widgets, widgetWriters, nfetch, nloc,
                   today, badReply>>

\* quit: self.running = False; Gtk.main_quit()
Quit ==
    /\ UiReady
    /\ running' = FALSE
    /\ Goto("ui", "quit")
    /\ UNCHANGED <<location, prefs, stored, idleq, data, li, ret, wrote,
                   waitvars, rend, widgets, widgetWriters, counters, locghost>>

\* Gtk.main() has returned and the interpreter ends: the daemon thread is
\* stopped wherever it is
ProcessExit ==
    /\ pc["ui"] = "quit"
    /\ pc' = [t \in Threads |-> IF t = "ui" THEN "exited"
                                ELSE IF pc[t] = "done" THEN "done" ELSE "killed"]
    /\ UNCHANGED <<running, location, prefs, stored, idleq, data, li, ret,
                   wrote, waitvars, rend, widgets, widgetWriters, counters,
                   locghost>>

\* ------------------------------------------------------ update_weather_ui
\* "if self.current_temp is None or self.current_condition is None"
RenderCheck ==
    /\ pc["ui"] = "r_check"
    /\ Goto("ui", IF current_temp = None \/ current_condition = None
                  THEN "idle" ELSE "r_icon")
    /\ UNCHANGED <<running, location, prefs, stored, idleq, data, li, ret,
                   wrote, waitvars, rend, widgets, widgetWriters, counters,
                   locghost>>

\* icon = self.get_condition_icon(self.current_condition)
RenderIcon ==
    /\ pc["ui"] = "r_icon"
    /\ rend' = [rend EXCEPT !.icon = current_condition]
    /\ Goto("ui", "r_temp")
    /\ UNCHANGED <<running, location, prefs, stored, idleq, data, li, ret,
                   wrote, waitvars, widgets, widgetWriters, counters, locghost>>

\* display_temp from self.current_temp; self.indicator.set_label
RenderTemp ==
    /\ pc["ui"] = "r_temp"
    /\ rend' = [rend EXCEPT !.temp = current_temp]
    /\ indicator_label' = [icon |-> rend.icon, desc |-> None,
                           temp |-> current_temp, unit |-> Unit]
    /\ widgetWriters' = widgetWriters \cup {"ui"}
    /\ Goto("ui", "r_desc")
    /\ UNCHANGED <<running, location, prefs, stored, idleq, data, li, ret,
                   wrote, waitvars, location_item, current_item, menu,
                   counters, locghost>>

\* condition_desc from self.current_condition; the current item is written;
\* the rows found by their text are removed from the menu
RenderDesc ==
    /\ pc["ui"] = "r_desc"
    /\ current_item' = [icon |-> rend.icon, desc |-> current_condition,
                        temp |-> rend.temp, unit |-> Unit]
    /\ menu' = RemoveItems(menu)
    /\ Goto("ui", "r_bind")
    /\ UNCHANGED <<running, location, prefs, stored, idleq, data, li, ret,
                   wrote, waitvars, rend, indicator_label, location_item,
                   widgetWriters, counters, locghost>>

\* "for i, day_data in enumerate(self.forecast)": the list is bound
RenderBind ==
    /\ pc["ui"] = "r_bind"
    /\ rend' = [rend EXCEPT !.live = TRUE, !.snap = <<>>, !.i = 0,
                            !.new_items = <<>>, !.last = FALSE]
    /\ Goto("ui", "r_iter")
    /\ UNCHANGED <<running, location, prefs, stored, idleq, data, li, ret,
                   wrote, waitvars, widgets, widgetWriters, counters, locghost>>

\* the list the render iterates over
RenderList == IF rend.live THEN forecast ELSE rend.snap

\* one iteration of the loop over the forecast, or its end with the closing
\* separator
RenderIter ==
    /\ pc["ui"] = "r_iter"
    /\ IF rend.i < Len(RenderList)
       THEN LET day == RenderList[rend.i + 1]
                is_weekend == IsWeekend(day.date)
            IN  /\ rend' = [rend EXCEPT
                              !.i = rend.i + 1,
                              !.new_items = rend.new_items
                                  \o WeekendTransition(is_weekend, rend.last)
                                  \o <<ForecastRow(day, use_imperial)>>,
                              !.last = is_weekend]
                /\ UNCHANGED pc
       ELSE /\ rend' = [rend EXCEPT
                          !.live = FALSE, !.snap = <<>>, !.i = 0, !.last = FALSE,
                          !.new_items = rend.new_items \o ClosingSeparator(rend.last)]
            /\ Goto("ui", "r_insert")
    /\ UNCHANGED <<running, location, prefs, stored, idleq, data, li, ret,
                   wrote, waitvars, widgets, widgetWriters, counters, locghost>>

\* the new rows are inserted after the first separator; show_all
RenderInsert ==
    /\ pc["ui"] = "r_insert"
    /\ menu' = InsertRows(menu, rend.new_items)
    /\ rend' = RendIdle
    /\ Goto("ui", "idle")
    /\ UNCHANGED <<running, location, prefs, stored, idleq, data, li, ret,
                   wrote, waitvars, indicator_label, location_item,
                   current_item, widgetWriters, counters, locghost>>

\* --------------------------------------------------------- specification
Next ==
    \/ BgStart
    \/ LoopTest
    \/ WaitStart
    \/ WaitStep
    \/ \E t \in Threads : LocReply(t)
    \/ \E t \in Threads : LocLatitude(t)
    \/ \E t \in Threads : LocLongitude(t)
    \/ \E t \in Threads : LocName(t)
    \/ \E t \in Threads : LocReturn(t)
    \/ \E t \in Threads : WxReply(t)
    \/ \E t \in Threads : WxTemp(t)
    \/ \E t \in Threads : WxCond(t)
    \/ \E t \in Threads : WxIdleLocation(t)
    \/ \E t \in Threads : WxClear(t)
    \/ \E t \in Threads : WxAppend(t)
    \/ \E t \in Threads : WxReturn(t)
    \/ RunUpdateLocationItem
    \/ StartUpdateWeatherUi
    \/ OnIntervalToggled
    \/ OnUnitToggled
    \/ RefreshWeather
    \/ Quit
    \/ ProcessExit
    \/ RenderCheck
    \/ RenderIcon
    \/ RenderTemp
    \/ RenderDesc
    \/ RenderBind
    \/ RenderIter
    \/ RenderInsert

Spec == Init /\ [][Next]_vars

\* ------------------------------------------- the formatter on its own
\* The state after the first cycle has stored a reply of n consecutive days
\* from date d on and queued its two callbacks, the background thread being
\* in its wait; only the main loop runs.
InitFormat ==
    /\ running = TRUE
    /\ latitude = 1
    /\ longitude = 1
    /\ location_name = Place("place", 1)
    /\ use_imperial = TRUE
    /\ current_temp = 1
    /\ current_condition = 1
    /\ today \in 0..6
    /\ \E n \in 0..ForecastDays :
          forecast = [i \in 1..n |-> Day(1, i, today + i - 1)]
    /\ update_interval = MinInterval
    /\ idleq = <<"update_location_item", "update_weather_ui">>
    /\ pc = [t \in Threads |-> IF t = "bg" THEN "wait" ELSE "idle"]
    /\ data = [t \in Threads |-> NoData]
    /\ li = [t \in Threads |-> 0]
    /\ ret = [t \in Threads |-> FALSE]
    /\ wrote = [t \in Threads |-> FALSE]
    /\ waitTotal = MinInterval * TicksPerMinute
    /\ waitDone = 0
    /\ rend = RendIdle
    /\ indicator_label = NoLabel
    /\ location_item = Place("Detecting...", None)
    /\ current_item = NoLabel
    /\ menu = InitialMenu
    /\ widgetWriters = {}
    /\ nfetch = 1
    /\ nloc = 1
    /\ nuser = 0
    /\ badReply = FALSE
    /\ bgLocAttempts = 1
    /\ bgLocSinceFetch = FALSE

NextFormat ==
    \/ RunUpdateLocationItem
    \/ StartUpdateWeatherUi
    \/ OnUnitToggled
    \/ RenderCheck
    \/ RenderIcon
    \/ RenderTemp
    \/ RenderDesc
    \/ RenderBind
    \/ RenderIter
    \/ RenderInsert

SpecFormat == InitFormat /\ [][NextFormat]_vars


\* ================================================================ claims
UpdatePcs == {"wx_temp", "wx_cond", "wx_idle", "wx_clear", "wx_append"}

\* C1: a call of update_weather_data that returns False (transport error,
\* status # 200, a field of the reply missing, daily lists of unequal
\* length) has changed neither current_temp, current_condition nor forecast.
C1_FailedFetchKeepsState ==
    \A t \in Threads : (pc[t] = "wx_ret" /\ ~ret[t]) => ~wrote[t]

\* the forecast rows of the menu
RECURSIVE ForecastRows(_)
ForecastRows(m) ==
    IF m = <<>> THEN <<>>
    ELSE IF Head(m).kind = "forecast"
         THEN <<Head(m)>> \o ForecastRows(Tail(m))
         ELSE ForecastRows(Tail(m))

\* the days of the k-th reply, all of them, in order
DaysOf(k) == [i \in 1..MaxDays |-> Day(k, i, today + i - 1)]

\* C2: with well-formed replies only, what a finished render shows comes
\* from one reply: the icon, temperature and description of the current
\* conditions and every forecast row have the same source, and the rows are
\* all the days of that reply.
C2_RenderShowsOneReply ==
    (pc["ui"] = "idle" /\ indicator_label # NoLabel /\ ~badReply) =>
        \E k \in 1..MaxFetch :
            /\ indicator_label.icon = k
            /\ indicator_label.temp = k
            /\ current_item.icon = k
            /\ current_item.desc = k
            /\ current_item.temp = k
            /\ LET rows == ForecastRows(menu)
               IN  /\ Len(rows) = MaxDays
                   /\ \A i \in 1..Len(rows) : rows[i].src = k /\ rows[i].idx = i

\* C3: the main thread is never inside a geolocation or weather request.
C3_NoRequestOnUiThread == pc["ui"] \notin {"loc_call", "wx_call"}

\* C4: every change of a widget (indicator label, location item, current
\* item, menu rows) is made by the main thread; the background thread
\* changes none.
C4_WidgetsChangedOnUiThreadOnly == widgetWriters \subseteq {"ui"}

\* C4 witness: a background cycle's data is on display: the location item,
\* the indicator label and forecast rows have been written, no refresh
\* having been asked for.
C4_Witness ==
    /\ nuser = 0
    /\ location_item.text # "Detecting..."
    /\ indicator_label # NoLabel
    /\ ForecastRows(menu) # <<>>
    /\ widgetWriters = {"ui"}

\* C5: a call of get_location_from_ip that returns False (network error,
\* status # 200, no "loc", malformed "loc") has changed none of latitude,
\* longitude and location_name.
C5_FailedResolveKeepsLocation ==
    \A t \in Threads : (pc[t] = "loc_ret" /\ ~ret[t]) => ~wrote[t]

\* C6: a wait starts with the number of 1-second steps given by the interval
\* read at that moment; while it runs that number does not change, whatever
\* the interval becomes, and while running is set the wait ends only after
\* exactly that many steps.
C6_WaitKeepsItsLength ==
    [][ /\ (pc["bg"] = "wait_start" /\ pc'["bg"] = "wait") =>
              (waitTotal' = update_interval * TicksPerMinute /\ waitDone' = 0)
        /\ (pc["bg"] = "wait" /\ pc'["bg"] = "wait") =>
              (waitTotal' = waitTotal /\ waitDone' \in {waitDone, waitDone + 1})
        /\ (pc["bg"] = "wait" /\ pc'["bg"] = "loop_test" /\ running) =>
              waitDone = waitTotal
      ]_vars

\* C6 witness: the interval was changed during a wait, which has run its
\* original number of steps, different from what the new interval gives.
C6_Witness ==
    /\ pc["bg"] = "wait"
    /\ waitTotal # update_interval * TicksPerMinute
    /\ waitDone = waitTotal
    /\ waitDone > 0

\* C7: once running is False, current_temp, current_condition and forecast
\* do not change any more and no callback is added to the idle queue.
C7_NothingStoredAfterQuit ==
    [][ ~running => (stored' = stored /\ Len(idleq') <= Len(idleq)) ]_vars

\* day i of a sequence begins / ends a maximal run of Saturdays and Sundays
StartsRun(days, i) ==
    IsWeekend(days[i].date) /\ (i = 1 \/ ~IsWeekend(days[i - 1].date))

EndsRun(days, i) ==
    IsWeekend(days[i].date) /\ (i = Len(days) \/ ~IsWeekend(days[i + 1].date))

\* the rows in input order, a blank row before the first and after the last
\* day of each run, and no other blank row
RECURSIVE Grouped(_, _, _)
Grouped(days, i, imperial) ==
    IF i > Len(days) THEN <<>>
    ELSE (IF StartsRun(days, i) THEN <<BlankItem>> ELSE <<>>)
         \o <<ForecastRow(days[i], imperial)>>
         \o (IF EndsRun(days, i) THEN <<BlankItem>> ELSE <<>>)
         \o Grouped(days, i + 1, imperial)

\* C8: the rows a render has built from a forecast of consecutive days are
\* the forecast rows in input order with a blank row immediately before the
\* first and immediately after the last day of each maximal run of
\* Saturdays and Sundays (also as the last row), and no blank row elsewhere.
C8_WeekendGrouping ==
    pc["ui"] = "r_insert" => rend.new_items = Grouped(forecast, 1, use_imperial)

\* C8 witness: 15 days from a Wednesday on have been rendered, with two
\* weekends and so four blank rows.
C8_Witness ==
    /\ pc["ui"] = "r_insert"
    /\ Len(forecast) = ForecastDays
    /\ Weekday(forecast[1].date) = 2
    /\ Len(rend.new_items) = ForecastDays + 4

C10_ForecastIsOneReply ==
    (~badReply /\ \A t \in Threads : pc[t] \notin UpdatePcs \cup {"killed"}) =>
        \/ forecast = <<>>
        \/ \E k \in 1..MaxFetch : forecast = DaysOf(k)


\* the rows of the menu after the first separator and before the separator
\* that precedes the Preferences item
ForecastRegion(m) ==
    LET p == CHOOSE i \in 1..Len(m) : m[i].kind = "prefs"
    IN  SubSeq(m, InsertPosition + 1, p - 2)

\* C11: when a render inserts its rows, the region of the menu between the
\* first separator and the Preferences block then holds exactly the rows
\* that render built, and nothing of an earlier render.
C11_RegionIsLastRender ==
    [][ (pc["ui"] = "r_insert" /\ pc'["ui"] = "idle") =>
            ForecastRegion(menu') = rend.new_items ]_vars

============================================================================
